---- MODULE Spec2Model ----
(***************************************************************************)
(* Model of the a3-transcoder job processing engine:                       *)
(*   - the worker's consumer loop and per-message pipeline                 *)
(*     (src/worker/worker.py),                                             *)
(*   - the job state store as the worker and the API data layer write it   *)
(*     (src/worker/worker.py _update_job, src/api/dal.py update_job),      *)
(*   - the producer (src/api/main.py transcode),                           *)
(*   - the encoder call and its preset lookup (src/worker/transcode.py),   *)
(*   - the queue, the bucket and the clock they run against.               *)
(* Every remote call (get_item, update_item, receive_message,              *)
(* delete_message, download_file, upload_file, the ffmpeg process) either  *)
(* returns or raises; a call that raises has had no effect.                *)
(***************************************************************************)
EXTENDS Integers, Sequences, FiniteSets, TLC

\* ---------------------------------------------------------------- bounds
\* How many deliveries the queue makes in a run, over all its messages.
MaxDeliveries == 2

\* The worker processes polling the queue, and the jobs the API creates.
Workers == {"w1", "w2"}
JobIds == {"J1"}
\* A message some other sender put on the queue; its body is not JSON.
BadMsg == "M0"
\* Every message the queue may hold: one per job (the API's), and the bad one.
Msgs == JobIds \cup {BadMsg}
\* _now() / now_iso(): the wall clock formatted to the second.  A run is
\* taken to fall within one second, so a stamp records that a field was
\* written, not when.
now == "2025-01-01T00:00:00Z"
\* Object keys are <<prefix, name, extension>>: input/a.mp4, output/<jobId>.mp4.
InputKeys == {<<"input", "a", "mp4">>}

VARIABLES
    jobs,        \* the job table: jobId -> item (a function field -> value; <<>> when absent)
    objects,     \* the bucket: set of keys that hold an object
    queue,       \* message -> "unsent" | "visible" | "inflight" | "deleted"
    deliveries,  \* message -> number of times it was received (its latest receipt handle)
    api,         \* jobId -> position of the transcode handler
    pc,          \* worker -> position in main / process_message
    cur,         \* worker -> the message and receipt handle it holds
    seen,        \* worker -> status the idempotency guard read
    trace,       \* worker -> calls issued for the current message, in order
    raised,      \* worker -> the first call that raised for the current message
    propagating, \* worker -> an exception is leaving process_message
    err,         \* worker -> str(e) of the exception being handled
    ext,         \* worker -> its VisibilityExtender: the thread, the stop event,
                 \*   and the handles of threads that outlived their join
    terminalBy,  \* jobId -> receipt handles whose attempt wrote DONE or FAILED
    deletedBy,   \* message -> receipt handle whose delete removed it (0: none)
    apiResult,   \* outcome of the last dal.update_job call
    outlasted,   \* worker -> its encode/upload phase in progress has lasted
                 \*   longer than the extension period
    ff           \* one encoder call followed from the message body to its
                 \*   result: the preset read, its parameters, the command

\* The engine's variables: everything but the encoder call.
engine == <<jobs, objects, queue, deliveries, api, pc, cur, seen, trace,
            raised, propagating, err, ext, terminalBy, deletedBy, apiResult, outlasted>>

vars == <<jobs, objects, queue, deliveries, api, pc, cur, seen, trace,
          raised, propagating, err, ext, terminalBy, deletedBy, apiResult, outlasted,
          ff>>

\* VisibilityExtender of the attempt in progress: thread is "off" (not
\* started, or _run returned), "waiting" (in _stop.wait) or "calling" (in
\* _extend_visibility); stop is its stop event; handle is its receipt_handle.
\* zombies are the receipt handles of earlier extenders' threads that are
\* still running.
NoExtender == [thread |-> "off", stop |-> FALSE, handle |-> 0, zombies |-> {}]

\* common/config: MAX_VIS_TIMEOUT, the ceiling every extension asks for.
MAX_VIS_TIMEOUT == 1800

NoItem == <<>>

\* No encoder call is being followed.
NoCall == [stage |-> "none"]
NoMsg == [msg |-> "none", handle |-> 0, rest |-> {}]

\* ------------------------------------------------------------ job store
\* DynamoDB update_item with "SET k1 = v1, ...": an upsert that overwrites the
\* named attributes and keeps every other attribute of the item.
SetFields(item, j, fields) ==
    LET base == IF item = NoItem THEN [jobId |-> j] ELSE item
    IN  [k \in DOMAIN base \cup DOMAIN fields |->
            IF k \in DOMAIN fields THEN fields[k] ELSE base[k]]

HasField(item, k) == item # NoItem /\ k \in DOMAIN item

StatusOf(item) == IF HasField(item, "status") THEN item["status"] ELSE "NOT_SEEN"

\* worker/_update_job: stamps updatedAt and issues the SET with no
\* ConditionExpression, so the write applies whatever the stored status is.
WorkerUpdate(item, j, fields, t) ==
    SetFields(item, j, fields @@ [updatedAt |-> t])

\* api/dal.update_job: the same SET under
\* ConditionExpression "attribute_not_exists(jobId) OR #st <> :done".
DalCondition(item) == item = NoItem \/ StatusOf(item) # "DONE"

DalUpdate(item, j, fields, t) ==
    IF DalCondition(item)
    THEN SetFields(item, j, fields @@ [updatedAt |-> t])
    ELSE item

\* ------------------------------------------------------------- pipeline
\* The guard with RUNNING left out / with DONE left out.
RedundantDoneOnly == {"DONE"}

RedundantRunningOnly == {"RUNNING"}

\* process_message: the idempotency guard's set of redundant statuses.
Redundant == {"RUNNING", "DONE"}

\* The RUNNING write issued only before the DONE write.
ProcessOrderLateRunning ==
    <<"download", "start_ext", "encode", "upload", "write_running",
      "write_done", "delete_msg">>

\* The message deleted before the DONE write.
ProcessOrderDeleteFirst ==
    <<"write_running", "download", "start_ext", "encode", "upload",
      "delete_msg", "write_done">>

\* The message deleted as soon as the job is RUNNING.
ProcessOrderEarlyDelete ==
    <<"write_running", "delete_msg", "download", "start_ext", "encode",
      "upload", "write_done">>

\* process_message: the statements after the guard, in program order.
\* The extender started only after the encode.
ProcessOrderLateExtender ==
    <<"write_running", "download", "encode", "start_ext", "upload", "write_done",
      "delete_msg">>

ProcessOrder ==
    <<"write_running", "download", "start_ext", "encode", "upload",
      "write_done", "delete_msg">>

\* The try block opens at extender.start(): the third statement.
TryFrom == 3

Pos(step) == CHOOSE i \in 1..Len(ProcessOrder) : ProcessOrder[i] = step

After(step) ==
    IF Pos(step) = Len(ProcessOrder) THEN "stop_ext" ELSE ProcessOrder[Pos(step) + 1]

OutputKey(j) == <<"output", j, "mp4">>

ErrText(step) ==
    CASE step = "encode"     -> "ffmpeg failed (1)"
      [] step = "upload"     -> "S3UploadFailedError"
      [] step = "write_done" -> "ClientError: UpdateItem"
      [] step = "delete_msg" -> "ClientError: DeleteMessage"
      [] OTHER               -> "RuntimeError"

InitEngine ==
    /\ jobs = [j \in JobIds |-> NoItem]
    /\ objects = InputKeys
    /\ queue = [m \in Msgs |-> "unsent"]
    /\ deliveries = [m \in Msgs |-> 0]
    /\ api = [j \in JobIds |-> "idle"]
    /\ pc = [w \in Workers |-> "receive"]
    /\ cur = [w \in Workers |-> NoMsg]
    /\ seen = [w \in Workers |-> "none"]
    /\ trace = [w \in Workers |-> <<>>]
    /\ raised = [w \in Workers |-> "none"]
    /\ propagating = [w \in Workers |-> FALSE]
    /\ err = [w \in Workers |-> ""]
    /\ ext = [w \in Workers |-> NoExtender]
    /\ terminalBy = [j \in JobIds |-> {}]
    /\ deletedBy = [m \in Msgs |-> 0]
    /\ apiResult = "none"
    /\ outlasted = [w \in Workers |-> FALSE]

Init ==
    /\ InitEngine
    /\ ff = NoCall

\* ------------------------------------------------------------- producer
\* api/main.transcode, first half: put_job of the initial PENDING record.
ApiPutJob(j) ==
    /\ api[j] = "idle"
    /\ \E k \in InputKeys :
         jobs' = [jobs EXCEPT ![j] =
                    [jobId |-> j, userId |-> "u1", inputKey |-> k,
                     preset |-> "mp4-720p", status |-> "PENDING", createdAt |-> now]]
    /\ api' = [api EXCEPT ![j] = "put"]
    /\ UNCHANGED <<objects, queue, deliveries, pc, cur, seen, trace, raised,
                   propagating, err, ext, terminalBy, deletedBy, apiResult,
                   outlasted, ff>>

\* api/main.transcode, second half: send_message of the job's one message.
ApiSend(j) ==
    /\ api[j] = "put"
    /\ queue' = [queue EXCEPT ![j] = "visible"]
    /\ api' = [api EXCEPT ![j] = "sent"]
    /\ UNCHANGED <<jobs, objects, deliveries, pc, cur, seen, trace, raised,
                   propagating, err, ext, terminalBy, deletedBy, apiResult,
                   outlasted, ff>>

\* send_message raises: the handler ends with the PENDING record and no message.
ApiSendFail(j) ==
    /\ api[j] = "put"
    /\ api' = [api EXCEPT ![j] = "failed"]
    /\ UNCHANGED <<jobs, objects, queue, deliveries, pc, cur, seen, trace, raised,
                   propagating, err, ext, terminalBy, deletedBy, apiResult,
                   outlasted, ff>>

\* Another sender puts a well-formed message on the queue that names a job id
\* the API never created: the store has no record of it.
ForeignSendJob(j) ==
    /\ api[j] = "idle"
    /\ queue' = [queue EXCEPT ![j] = "visible"]
    /\ api' = [api EXCEPT ![j] = "foreign"]
    /\ UNCHANGED <<jobs, objects, deliveries, pc, cur, seen, trace, raised,
                   propagating, err, ext, terminalBy, deletedBy, apiResult,
                   outlasted, ff>>

\* The number of deliveries the queue has made of the messages in S.
RECURSIVE Delivered(_)
Delivered(S) ==
    IF S = {} THEN 0
    ELSE LET m == CHOOSE x \in S : TRUE
         IN  deliveries[m] + Delivered(S \ {m})

\* ---------------------------------------------------------- environment
\* The queue makes an in-flight message receivable again: its visibility
\* timeout ran out, or the at-least-once queue hands out a duplicate.
Redeliver(m) ==
    /\ queue[m] = "inflight"
    /\ Delivered(Msgs) < MaxDeliveries
    /\ queue' = [queue EXCEPT ![m] = "visible"]
    /\ UNCHANGED <<jobs, objects, deliveries, api, pc, cur, seen, trace, raised,
                   propagating, err, ext, terminalBy, deletedBy, apiResult,
                   outlasted, ff>>

\* --------------------------------------------------------------- worker
Job(w) == cur[w].msg

Issue(w, call) == trace' = [trace EXCEPT ![w] = Append(@, call)]

Raise(w, call) ==
    raised' = [raised EXCEPT ![w] = IF @ = "none" THEN call ELSE @]

\* worker/_delete_msg: delete_message removes the message from the queue.
DeleteMessage(w) ==
    IF queue[Job(w)] = "deleted"
    THEN UNCHANGED <<queue, deletedBy,
                   outlasted, ff>>
    ELSE /\ queue' = [queue EXCEPT ![Job(w)] = "deleted"]
         /\ deletedBy' = [deletedBy EXCEPT ![Job(w)] = cur[w].handle]

\* An exception leaves main: the worker process ends (and its daemon thread).
Crash(w, call) ==
    /\ pc' = [pc EXCEPT ![w] = "crashed"]
    /\ ext' = [ext EXCEPT ![w] = NoExtender]
    /\ Issue(w, call)
    /\ Raise(w, call)

\* A receive that asks for a batch of two.
MaxNumberOfMessagesTwo == 1 + 1

\* main: receive_message(MaxNumberOfMessages=1, ...).
MaxNumberOfMessages == 1

\* main: json.loads(m["Body"]) succeeds on the API's json.dumps bodies only.
Parses(m) == m \in JobIds

\* main: where the for loop's body goes with message m.
Dispatch(m) == IF Parses(m) THEN "guard_read" ELSE "drop_delete"

Receivable == {m \in Msgs : queue[m] = "visible" /\ Delivered(Msgs) < MaxDeliveries}

\* main: receive_message returns a batch of at most MaxNumberOfMessages
\* messages, each under a fresh receipt handle and invisible to other
\* receivers; the for loop takes the first and parses its body.
Receive(w) ==
    /\ pc[w] = "receive"
    /\ \E batch \in SUBSET Receivable :
         /\ batch # {}
         /\ Cardinality(batch) <= MaxNumberOfMessages
         /\ Delivered(Msgs) + Cardinality(batch) <= MaxDeliveries
         /\ queue' = [m \in Msgs |-> IF m \in batch THEN "inflight" ELSE queue[m]]
         /\ deliveries' = [m \in Msgs |->
                             IF m \in batch THEN deliveries[m] + 1 ELSE deliveries[m]]
         /\ \E m \in batch :
              /\ cur' = [cur EXCEPT ![w] =
                           [msg |-> m, handle |-> deliveries[m] + 1,
                            rest |-> {[msg |-> r, handle |-> deliveries[r] + 1] :
                                        r \in batch \ {m}}]]
              /\ pc' = [pc EXCEPT ![w] = Dispatch(m)]
    /\ UNCHANGED <<jobs, objects, api, seen, trace, raised, propagating, err,
                   ext, terminalBy, deletedBy, apiResult,
                   outlasted, ff>>

\* main: the per-message code has returned (or hit continue).  The for loop
\* takes the next message of the batch; after the last one while True starts
\* its next iteration.
Loop(w) ==
    /\ pc[w] = "returned"
    /\ IF cur[w].rest = {}
       THEN /\ pc' = [pc EXCEPT ![w] = "receive"]
            /\ cur' = [cur EXCEPT ![w] = NoMsg]
       ELSE \E r \in cur[w].rest :
              /\ pc' = [pc EXCEPT ![w] = Dispatch(r.msg)]
              /\ cur' = [cur EXCEPT ![w] =
                           [msg |-> r.msg, handle |-> r.handle,
                            rest |-> cur[w].rest \ {r}]]
    /\ seen' = [seen EXCEPT ![w] = "none"]
    /\ trace' = [trace EXCEPT ![w] = <<>>]
    /\ raised' = [raised EXCEPT ![w] = "none"]
    /\ err' = [err EXCEPT ![w] = ""]
    /\ UNCHANGED <<jobs, objects, queue, deliveries, api, propagating, ext,
                   terminalBy, deletedBy, apiResult, outlasted, ff>>

\* The drop without its delete: log and continue.
DropDeleteKeep(w) ==
    /\ pc[w] = "drop_delete"
    /\ pc' = [pc EXCEPT ![w] = "returned"]
    /\ Issue(w, "drop_delete")
    /\ UNCHANGED <<jobs, objects, queue, deliveries, api, cur, seen, raised,
                   propagating, err, ext, terminalBy, deletedBy, apiResult,
                   outlasted, ff>>

\* main: the body did not parse: log, _delete_msg(m["ReceiptHandle"]), continue.
DropDelete(w) ==
    /\ pc[w] = "drop_delete"
    /\ DeleteMessage(w)
    /\ pc' = [pc EXCEPT ![w] = "returned"]
    /\ Issue(w, "drop_delete")
    /\ UNCHANGED <<jobs, objects, deliveries, api, cur, seen, raised,
                   propagating, err, ext, terminalBy, apiResult,
                   outlasted, ff>>

\* The drop's delete_message raises inside the except clause: it leaves main.
DropDeleteFail(w) ==
    /\ pc[w] = "drop_delete"
    /\ Crash(w, "drop_delete")
    /\ UNCHANGED <<jobs, objects, queue, deliveries, api, cur, seen,
                   propagating, err, terminalBy, deletedBy, apiResult,
                   outlasted, ff>>

\* Another sender puts a message on the queue whose body is not JSON.
ForeignSend ==
    /\ queue[BadMsg] = "unsent"
    /\ queue' = [queue EXCEPT ![BadMsg] = "visible"]
    /\ UNCHANGED <<jobs, objects, deliveries, api, pc, cur, seen, trace, raised,
                   propagating, err, ext, terminalBy, deletedBy, apiResult,
                   outlasted, ff>>

\* The worker process is killed while it holds a message (host lost, out of
\* memory, SIGKILL): main and the daemon thread end where they are; the
\* message stays in flight until its visibility timeout runs out.
Kill(w) ==
    /\ pc[w] \notin {"receive", "crashed"}
    /\ pc' = [pc EXCEPT ![w] = "crashed"]
    /\ ext' = [ext EXCEPT ![w] = NoExtender]
    /\ outlasted' = [outlasted EXCEPT ![w] = FALSE]
    /\ UNCHANGED <<jobs, objects, queue, deliveries, api, cur, seen, trace, raised,
                   propagating, err, terminalBy, deletedBy, apiResult, ff>>

\* main: receive_message raises; nothing in main catches it.
ReceiveFail(w) ==
    /\ pc[w] = "receive"
    /\ pc' = [pc EXCEPT ![w] = "crashed"]
    /\ raised' = [raised EXCEPT ![w] = "receive"]
    /\ ext' = [ext EXCEPT ![w] = NoExtender]
    /\ UNCHANGED <<jobs, objects, queue, deliveries, api, cur, seen, trace,
                   propagating, err, terminalBy, deletedBy, apiResult,
                   outlasted, ff>>

\* process_message: job = _get_job(job_id) and the guard's branch.
GuardRead(w) ==
    /\ pc[w] = "guard_read"
    /\ seen' = [seen EXCEPT ![w] = StatusOf(jobs[Job(w)])]
    /\ pc' = [pc EXCEPT ![w] =
                IF StatusOf(jobs[Job(w)]) \in Redundant
                THEN "guard_delete" ELSE ProcessOrder[1]]
    /\ Issue(w, "get_job")
    /\ UNCHANGED <<jobs, objects, queue, deliveries, api, cur, raised,
                   propagating, err, ext, terminalBy, deletedBy, apiResult,
                   outlasted, ff>>

\* get_item raises: nothing in process_message or main catches it.
GuardReadFail(w) ==
    /\ pc[w] = "guard_read"
    /\ Crash(w, "get_job")
    /\ UNCHANGED <<jobs, objects, queue, deliveries, api, cur, seen,
                   propagating, err, terminalBy, deletedBy, apiResult,
                   outlasted, ff>>

\* process_message: the guard's _delete_msg and return.
GuardDelete(w) ==
    /\ pc[w] = "guard_delete"
    /\ DeleteMessage(w)
    /\ pc' = [pc EXCEPT ![w] = "returned"]
    /\ Issue(w, "guard_delete")
    /\ UNCHANGED <<jobs, objects, deliveries, api, cur, seen, raised,
                   propagating, err, ext, terminalBy, apiResult,
                   outlasted, ff>>

GuardDeleteFail(w) ==
    /\ pc[w] = "guard_delete"
    /\ Crash(w, "guard_delete")
    /\ UNCHANGED <<jobs, objects, queue, deliveries, api, cur, seen,
                   propagating, err, terminalBy, deletedBy, apiResult,
                   outlasted, ff>>

\* process_message: _update_job(job_id, status="RUNNING", startedAt=_now()).
WriteRunning(w) ==
    /\ pc[w] = "write_running"
    /\ jobs' = [jobs EXCEPT ![Job(w)] =
                  WorkerUpdate(@, Job(w), [status |-> "RUNNING", startedAt |-> now], now)]
    /\ pc' = [pc EXCEPT ![w] = After("write_running")]
    /\ Issue(w, "write_running")
    /\ UNCHANGED <<objects, queue, deliveries, api, cur, seen, raised,
                   propagating, err, ext, terminalBy, deletedBy, apiResult,
                   outlasted, ff>>

\* process_message: _download_from_s3(inputKey, local_in).
Download(w) ==
    /\ pc[w] = "download"
    /\ HasField(jobs[Job(w)], "inputKey") => jobs[Job(w)]["inputKey"] \in objects
    /\ pc' = [pc EXCEPT ![w] = After("download")]
    /\ Issue(w, "download")
    /\ UNCHANGED <<jobs, objects, queue, deliveries, api, cur, seen, raised,
                   propagating, err, ext, terminalBy, deletedBy, apiResult,
                   outlasted, ff>>

\* process_message: extender.start().
StartExt(w) ==
    /\ pc[w] = "start_ext"
    /\ ext' = [ext EXCEPT ![w].thread = "waiting", ![w].stop = FALSE,
                          ![w].handle = cur[w].handle]
    /\ pc' = [pc EXCEPT ![w] = After("start_ext")]
    /\ Issue(w, "start_ext")
    /\ UNCHANGED <<jobs, objects, queue, deliveries, api, cur, seen, raised,
                   propagating, err, terminalBy, deletedBy, apiResult,
                   outlasted, ff>>

\* process_message: run_ffmpeg returns (ffmpeg exited 0).
Encode(w) ==
    /\ pc[w] = "encode"
    /\ pc' = [pc EXCEPT ![w] = After("encode")]
    /\ Issue(w, "encode")
    /\ UNCHANGED <<jobs, objects, queue, deliveries, api, cur, seen, raised,
                   propagating, err, ext, terminalBy, deletedBy, apiResult,
                   outlasted, ff>>

\* process_message: _upload_to_s3(local_out, f"output/{job_id}.mp4").
Upload(w) ==
    /\ pc[w] = "upload"
    /\ objects' = objects \cup {OutputKey(Job(w))}
    /\ pc' = [pc EXCEPT ![w] = After("upload")]
    /\ Issue(w, "upload")
    /\ outlasted' = [outlasted EXCEPT ![w] = FALSE]
    /\ UNCHANGED <<jobs, queue, deliveries, api, cur, seen, raised,
                   propagating, err, ext, terminalBy, deletedBy, apiResult, ff>>

\* process_message: _update_job(job_id, status="DONE", outputKey=..., finishedAt=_now()).
WriteDone(w) ==
    /\ pc[w] = "write_done"
    /\ jobs' = [jobs EXCEPT ![Job(w)] =
                  WorkerUpdate(@, Job(w),
                      [status |-> "DONE", outputKey |-> OutputKey(Job(w)),
                       finishedAt |-> now], now)]
    /\ terminalBy' = [terminalBy EXCEPT ![Job(w)] = @ \cup {cur[w].handle}]
    /\ pc' = [pc EXCEPT ![w] = After("write_done")]
    /\ Issue(w, "write_done")
    /\ UNCHANGED <<objects, queue, deliveries, api, cur, seen, raised,
                   propagating, err, ext, deletedBy, apiResult,
                   outlasted, ff>>

\* process_message: the success path's _delete_msg(receipt_handle).
DeleteMsg(w) ==
    /\ pc[w] = "delete_msg"
    /\ DeleteMessage(w)
    /\ pc' = [pc EXCEPT ![w] = After("delete_msg")]
    /\ Issue(w, "delete_msg")
    /\ UNCHANGED <<jobs, objects, deliveries, api, cur, seen, raised,
                   propagating, err, ext, terminalBy, apiResult,
                   outlasted, ff>>

\* A remote call of the pipeline raises.  Inside the try block the except
\* clause takes over; before it the exception leaves process_message and main.
Fallible == {"write_running", "download", "encode", "upload", "write_done", "delete_msg"}

StepFail(w) ==
    /\ pc[w] \in Fallible
    /\ IF Pos(pc[w]) >= TryFrom
       THEN /\ pc' = [pc EXCEPT ![w] = "write_failed"]
            /\ err' = [err EXCEPT ![w] = ErrText(pc[w])]
            /\ Issue(w, pc[w])
            /\ Raise(w, pc[w])
            /\ UNCHANGED ext
       ELSE /\ Crash(w, pc[w])
            /\ UNCHANGED err
    /\ outlasted' = [outlasted EXCEPT ![w] = FALSE]
    /\ UNCHANGED <<jobs, objects, queue, deliveries, api, cur, seen,
                   propagating, terminalBy, deletedBy, apiResult, ff>>

\* An except clause that only logs: no FAILED write.
WriteFailedSkip(w) ==
    /\ pc[w] = "write_failed"
    /\ pc' = [pc EXCEPT ![w] = "stop_ext"]
    /\ UNCHANGED <<jobs, objects, queue, deliveries, api, cur, seen, trace, raised,
                   propagating, err, ext, terminalBy, deletedBy, apiResult,
                   outlasted, ff>>

\* except Exception: _update_job(job_id, status="FAILED", error=str(e), finishedAt=_now()).
WriteFailed(w) ==
    /\ pc[w] = "write_failed"
    /\ jobs' = [jobs EXCEPT ![Job(w)] =
                  WorkerUpdate(@, Job(w),
                      [status |-> "FAILED", error |-> err[w], finishedAt |-> now], now)]
    /\ terminalBy' = [terminalBy EXCEPT ![Job(w)] = @ \cup {cur[w].handle}]
    /\ pc' = [pc EXCEPT ![w] = "stop_ext"]
    /\ Issue(w, "write_failed")
    /\ UNCHANGED <<objects, queue, deliveries, api, cur, seen, raised,
                   propagating, err, ext, deletedBy, apiResult,
                   outlasted, ff>>

\* The FAILED write raises inside the except clause: finally still runs.
WriteFailedFail(w) ==
    /\ pc[w] = "write_failed"
    /\ propagating' = [propagating EXCEPT ![w] = TRUE]
    /\ pc' = [pc EXCEPT ![w] = "stop_ext"]
    /\ Issue(w, "write_failed")
    /\ UNCHANGED <<jobs, objects, queue, deliveries, api, cur, seen, raised,
                   err, ext, terminalBy, deletedBy, apiResult,
                   outlasted, ff>>

\* finally: extender.stop() sets the stop event ...
StopExt(w) ==
    /\ pc[w] = "stop_ext"
    /\ ext' = [ext EXCEPT ![w].stop = TRUE]
    /\ pc' = [pc EXCEPT ![w] = "join"]
    /\ Issue(w, "stop_ext")
    /\ UNCHANGED <<jobs, objects, queue, deliveries, api, cur, seen, raised,
                   propagating, err, terminalBy, deletedBy, apiResult,
                   outlasted, ff>>

\* process_message returns to main's loop, or the exception leaves it.
Return(w) == pc' = [pc EXCEPT ![w] = IF propagating[w] THEN "crashed" ELSE "returned"]

\* stop() without its join: process_message returns whatever the thread does.
JoinNoWait(w) ==
    /\ pc[w] = "join"
    /\ Return(w)
    /\ UNCHANGED <<jobs, objects, queue, deliveries, api, cur, seen, trace, raised,
                   propagating, err, ext, terminalBy, deletedBy, apiResult,
                   outlasted, ff>>

\* ... and joins the thread: _run has returned (or the thread never started
\* and join's RuntimeError is swallowed).
Join(w) ==
    /\ pc[w] = "join"
    /\ ext[w].thread = "off"
    /\ Return(w)
    /\ ext' = [ext EXCEPT ![w].stop = FALSE,
                          ![w].handle = 0,
                          ![w].zombies = IF propagating[w] THEN {} ELSE @]
    /\ UNCHANGED <<jobs, objects, queue, deliveries, api, cur, seen, trace, raised,
                   propagating, err, terminalBy, deletedBy, apiResult,
                   outlasted, ff>>

\* join(timeout=5) gives up while the thread is still inside its
\* change_message_visibility call: the thread lives on past process_message.
JoinTimeout(w) ==
    /\ pc[w] = "join"
    /\ ext[w].thread = "calling"
    /\ Return(w)
    /\ ext' = [ext EXCEPT ![w].thread = "off",
                          ![w].stop = FALSE,
                          ![w].handle = 0,
                          ![w].zombies = IF propagating[w] THEN {}
                                         ELSE @ \cup {ext[w].handle}]
    /\ UNCHANGED <<jobs, objects, queue, deliveries, api, cur, seen, trace, raised,
                   propagating, err, terminalBy, deletedBy, apiResult,
                   outlasted, ff>>

\* A loop that does not look at the stop event: while True, sleep, extend.
ExtPeriodIgnoreStop(w) ==
    /\ ext[w].thread = "waiting"
    /\ ext' = [ext EXCEPT ![w].thread = "calling"]
    /\ UNCHANGED <<jobs, objects, queue, deliveries, api, pc, cur, seen, trace,
                   raised, propagating, err, terminalBy, deletedBy, apiResult,
                   outlasted, ff>>

\* VisibilityExtender._run: _stop.wait(period_sec) times out, the loop body runs.
ExtPeriod(w) ==
    /\ ext[w].thread = "waiting"
    /\ ~ext[w].stop
    /\ ext' = [ext EXCEPT ![w].thread = "calling"]
    /\ UNCHANGED <<jobs, objects, queue, deliveries, api, pc, cur, seen, trace,
                   raised, propagating, err, terminalBy, deletedBy, apiResult,
                   outlasted, ff>>

\* VisibilityExtender._run: _extend_visibility returns (the lease of the
\* handle is extended) or raises (logged and swallowed); back to the wait.
ExtExtend(w) ==
    /\ ext[w].thread = "calling"
    /\ ext' = [ext EXCEPT ![w].thread = "waiting"]
    /\ UNCHANGED <<jobs, objects, queue, deliveries, api, pc, cur, seen, trace,
                   raised, propagating, err, terminalBy, deletedBy, apiResult,
                   outlasted, ff>>

\* VisibilityExtender._run: the call the loop body issues.
ExtCall(w) == [handle |-> ext[w].handle, timeout |-> MAX_VIS_TIMEOUT]

\* An except clause that ends the thread: the failure is logged and _run
\* returns.
ExtWarnDies(w) ==
    /\ ext[w].thread = "warning"
    /\ ext' = [ext EXCEPT ![w].thread = "off"]
    /\ UNCHANGED <<jobs, objects, queue, deliveries, api, pc, cur, seen, trace,
                   raised, propagating, err, terminalBy, deletedBy, apiResult,
                   outlasted, ff>>

\* VisibilityExtender._run: the except clause has logged its warning; the
\* loop goes back to its wait.
ExtWarn(w) ==
    /\ ext[w].thread = "warning"
    /\ ext' = [ext EXCEPT ![w].thread = "waiting"]
    /\ UNCHANGED <<jobs, objects, queue, deliveries, api, pc, cur, seen, trace,
                   raised, propagating, err, terminalBy, deletedBy, apiResult,
                   outlasted, ff>>

\* VisibilityExtender._run: _extend_visibility raises into the except clause.
ExtExtendFail(w) ==
    /\ ext[w].thread = "calling"
    /\ ext' = [ext EXCEPT ![w].thread = "warning"]
    /\ UNCHANGED <<jobs, objects, queue, deliveries, api, pc, cur, seen, trace,
                   raised, propagating, err, terminalBy, deletedBy, apiResult,
                   outlasted, ff>>

\* period_sec (60 s) have passed since extender.start() and the main path is
\* still in its encode or upload: the thread's first _stop.wait(period_sec),
\* begun before the encode, has timed out by now and the loop body runs.
LongPhase(w) ==
    /\ pc[w] \in {"encode", "upload"}
    /\ ~outlasted[w]
    /\ outlasted' = [outlasted EXCEPT ![w] = TRUE]
    /\ ext' = IF ext[w].thread = "waiting" /\ ~ext[w].stop
              THEN [ext EXCEPT ![w].thread = "calling"]
              ELSE ext
    /\ UNCHANGED <<jobs, objects, queue, deliveries, api, pc, cur, seen, trace,
                   raised, propagating, err, terminalBy, deletedBy, apiResult, ff>>

\* VisibilityExtender._run: _stop.wait returns True, the thread ends.
ExtExit(w) ==
    /\ ext[w].thread = "waiting"
    /\ ext[w].stop
    /\ ext' = [ext EXCEPT ![w].thread = "off"]
    /\ UNCHANGED <<jobs, objects, queue, deliveries, api, pc, cur, seen, trace,
                   raised, propagating, err, terminalBy, deletedBy, apiResult,
                   outlasted, ff>>

\* A thread that outlived its join finishes its call, sees the stop event
\* and ends.
ZombieExit(w) ==
    /\ \E h \in ext[w].zombies :
         ext' = [ext EXCEPT ![w].zombies = @ \ {h}]
    /\ UNCHANGED <<jobs, objects, queue, deliveries, api, pc, cur, seen, trace,
                   raised, propagating, err, terminalBy, deletedBy, apiResult,
                   outlasted, ff>>

Next ==
    \/ \E j \in JobIds : ApiPutJob(j)
    \/ \E j \in JobIds : ApiSend(j)
    \/ \E j \in JobIds : ApiSendFail(j)
    \/ \E m \in Msgs : Redeliver(m)
    \/ \E w \in Workers : Receive(w)
    \/ \E w \in Workers : ReceiveFail(w)
    \/ \E w \in Workers : Loop(w)
    \/ \E w \in Workers : GuardRead(w)
    \/ \E w \in Workers : GuardReadFail(w)
    \/ \E w \in Workers : GuardDelete(w)
    \/ \E w \in Workers : GuardDeleteFail(w)
    \/ \E w \in Workers : WriteRunning(w)
    \/ \E w \in Workers : Download(w)
    \/ \E w \in Workers : StartExt(w)
    \/ \E w \in Workers : Encode(w)
    \/ \E w \in Workers : Upload(w)
    \/ \E w \in Workers : WriteDone(w)
    \/ \E w \in Workers : DeleteMsg(w)
    \/ \E w \in Workers : StepFail(w)
    \/ \E w \in Workers : WriteFailed(w)
    \/ \E w \in Workers : WriteFailedFail(w)
    \/ \E w \in Workers : StopExt(w)
    \/ \E w \in Workers : Join(w)
    \/ \E w \in Workers : JoinTimeout(w)
    \/ \E w \in Workers : ExtPeriod(w)
    \/ \E w \in Workers : ExtExtend(w)
    \/ \E w \in Workers : ExtExit(w)
    \/ \E w \in Workers : ZombieExit(w)

Spec == Init /\ [][Next]_vars

\* The engine with a malformed message on its queue.
NextPoison ==
    \/ Next
    \/ ForeignSend
    \/ \E w \in Workers : DropDelete(w)
    \/ \E w \in Workers : DropDeleteFail(w)

SpecPoison == Init /\ [][NextPoison]_vars

\* The engine with messages of jobs that have no record.
NextForeign ==
    \/ Next
    \/ \E j \in JobIds : ForeignSendJob(j)

SpecForeign == Init /\ [][NextForeign]_vars

\* The engine with the clock against the extension period and with extension
\* calls that fail.
NextLease ==
    \/ Next
    \/ \E w \in Workers : LongPhase(w)
    \/ \E w \in Workers : ExtExtendFail(w)
    \/ \E w \in Workers : ExtWarn(w)

SpecLease == Init /\ [][NextLease]_vars

\* The engine with worker processes that can be killed.
NextCrash ==
    \/ Next
    \/ \E w \in Workers : Kill(w)

SpecCrash == Init /\ [][NextCrash]_vars

\* ------------------------------------------------ the API data layer
\* Field sets a caller of dal.update_job may pass.
UpdateFields ==
    { [status |-> "FAILED", error |-> "cancelled"],
      [preset |-> "mp4-480p"] }

\* api/dal.update_job(job_id, fields): the conditional SET; a rejected
\* condition raises ConditionalCheckFailedException to the caller.
ApiUpdateJob(j, f) ==
    /\ jobs' = [jobs EXCEPT ![j] = DalUpdate(@, j, f, now)]
    /\ apiResult' = IF DalCondition(jobs[j]) THEN "applied" ELSE "rejected"
    /\ UNCHANGED <<objects, queue, deliveries, api, pc, cur, seen, trace, raised,
                   propagating, err, ext, terminalBy, deletedBy,
                   outlasted, ff>>

NextDal ==
    \/ Next
    \/ \E j \in JobIds, f \in UpdateFields : ApiUpdateJob(j, f)

\* The engine together with callers of the data layer's update_job.
SpecDal == Init /\ [][NextDal]_vars

\* ------------------------------------------------------ the encoder call
\* worker/transcode: PRESET_SPECS.
PRESET_SPECS ==
    [p \in {"mp4-1080p", "mp4-720p", "mp4-480p", "mp4-360p"} |->
        CASE p = "mp4-1080p" -> [width |-> 1920, height |-> 1080, crf |-> 23]
          [] p = "mp4-720p"  -> [width |-> 1280, height |-> 720,  crf |-> 23]
          [] p = "mp4-480p"  -> [width |-> 854,  height |-> 480,  crf |-> 24]
          [] p = "mp4-360p"  -> [width |-> 640,  height |-> 360,  crf |-> 25]]

\* The preset names a message may carry: the four of the table, and names the
\* table does not have (one differs from a table name by case only).
PresetNames == {"mp4-1080p", "mp4-720p", "mp4-480p", "mp4-360p",
                "unknown-preset", "MP4-1080P", ""}

\* The message bodies: with a preset field, and without one.
Bodies == {[jobId |-> "J1", inputKey |-> "input/a.mp4", preset |-> p] : p \in PresetNames}
            \cup {[jobId |-> "J1", inputKey |-> "input/a.mp4"]}

\* The intensity arguments run_ffmpeg is called with.
Intensities == {"low", "medium", "high", "max", "HIGH", "turbo"}

\* process_message: msg_body.get("preset", "mp4-720p").
MsgPreset(body) == IF "preset" \in DOMAIN body THEN body["preset"] ELSE "mp4-720p"

\* A lookup whose fallback is the table's first entry.
ResolveFirstEntry(p) ==
    IF p \in DOMAIN PRESET_SPECS THEN PRESET_SPECS[p] ELSE PRESET_SPECS["mp4-1080p"]

\* run_ffmpeg: PRESET_SPECS.get(preset, PRESET_SPECS["mp4-720p"]).
Resolve(p) ==
    IF p \in DOMAIN PRESET_SPECS THEN PRESET_SPECS[p] ELSE PRESET_SPECS["mp4-720p"]

\* str.lower on the intensities drawn.
Lower(level) == IF level = "HIGH" THEN "high" ELSE level

\* worker/transcode: _args_for_intensity, by the x264 preset it selects.
ArgsForIntensity(level) ==
    CASE Lower(level) = "low"    -> "faster"
      [] Lower(level) = "medium" -> "slow"
      [] Lower(level) = "max"    -> "placebo"
      [] OTHER                   -> "veryslow"

\* A message body arrives and run_ffmpeg will be called with some intensity.
InitPreset ==
    /\ InitEngine
    /\ \E b \in Bodies, i \in Intensities :
         ff = [stage |-> "message", body |-> b, intensity |-> i]

\* process_message reads the preset off the message body.
ReadPreset ==
    /\ ff.stage = "message"
    /\ ff' = [stage |-> "called", body |-> ff.body, intensity |-> ff.intensity,
              preset |-> MsgPreset(ff.body)]
    /\ UNCHANGED engine

\* run_ffmpeg resolves the preset to its width, height and crf.
RunResolve ==
    /\ ff.stage = "called"
    /\ ff' = [stage |-> "resolved", body |-> ff.body, intensity |-> ff.intensity,
              preset |-> ff.preset, spec |-> Resolve(ff.preset)]
    /\ UNCHANGED engine

\* run_ffmpeg builds the ffmpeg command line.
RunBuild ==
    /\ ff.stage = "resolved"
    /\ ff' = [stage |-> "built", body |-> ff.body, intensity |-> ff.intensity,
              preset |-> ff.preset, spec |-> ff.spec,
              cmd |-> [scale |-> <<ff.spec.width, ff.spec.height>>,
                       x264 |-> ArgsForIntensity(ff.intensity),
                       crf |-> ff.spec.crf]]
    /\ UNCHANGED engine

\* ffmpeg exits 0: run_ffmpeg returns the output path.
RunReturn ==
    /\ ff.stage = "built"
    /\ ff' = [ff EXCEPT !.stage = "returned"]
    /\ UNCHANGED engine

\* ffmpeg exits non-zero: run_ffmpeg raises RuntimeError.
RunRaise ==
    /\ ff.stage = "built"
    /\ ff' = [ff EXCEPT !.stage = "raised"]
    /\ UNCHANGED engine

NextPreset ==
    \/ ReadPreset
    \/ RunResolve
    \/ RunBuild
    \/ RunReturn
    \/ RunRaise

\* Encoder calls on their own, one for every body and intensity.
SpecPreset == InitPreset /\ [][NextPreset]_vars

\* ---------------------------------------------------------- properties
Status(j) == StatusOf(jobs[j])

Ended(w) == pc[w] \in {"returned", "crashed"}

\* The step is worker w leaving its current attempt (returning to the loop
\* or dying with the exception).
Ends(w) == pc[w] \notin {"receive", "returned", "crashed"} /\ pc'[w] \in {"returned", "crashed"}

Has(seq, x) == \E i \in DOMAIN seq : seq[i] = x

\* C1: once a job's stored status is DONE, no later step changes its stored
\* status or any other stored field.
C1_DoneImmutable ==
    [][\A j \in JobIds : Status(j) = "DONE" => jobs'[j] = jobs[j]]_vars

C3_OutputKeyIffDone ==
    \A j \in JobIds :
        jobs[j] # NoItem => (HasField(jobs[j], "outputKey") <=> Status(j) = "DONE")

\* C4: a delivery whose guard read found the job RUNNING or DONE issues the
\* message delete and nothing else: no store write, download, encode or
\* upload; when the delete has returned the message is gone from the queue.
C4_GuardAbsorbsDuplicate ==
    \A w \in Workers :
        seen[w] \in {"RUNNING", "DONE"} =>
            /\ pc[w] \in {"guard_delete", "returned", "crashed"}
            /\ pc[w] = "guard_delete" => trace[w] = <<"get_job">>
            /\ pc[w] = "returned" =>
                 /\ trace[w] = <<"get_job", "guard_delete">>
                 /\ queue[Job(w)] = "deleted"
            /\ pc[w] = "crashed" =>
                 /\ trace[w] = <<"get_job", "guard_delete">>
                 /\ raised[w] = "guard_delete"

\* A duplicate delivery of a job found RUNNING, absorbed: message deleted.
C4_Witness ==
    \E w \in Workers :
        /\ seen[w] = "RUNNING"
        /\ pc[w] = "returned"
        /\ trace[w] = <<"get_job", "guard_delete">>
        /\ queue[Job(w)] = "deleted"

\* The step is an update of job j by the worker (_update_job) or through the
\* data layer (update_job).
UpdateStep(j) ==
    \/ \E w \in Workers :
         /\ cur[w].msg = j
         /\ WriteRunning(w) \/ WriteDone(w) \/ WriteFailed(w)
    \/ \E f \in UpdateFields : ApiUpdateJob(j, f)

\* C5: an update operation (update_job or _update_job) applied to a job whose
\* stored status is DONE leaves every stored field of the record unchanged.
C5_UpdateOfDoneIsNoOp ==
    [][\A j \in JobIds :
         (UpdateStep(j) /\ Status(j) = "DONE") => jobs'[j] = jobs[j]]_vars

\* C6: on the success path the message delete is issued right after the DONE
\* write, which is issued right after the upload; and a record that shows
\* DONE with outputKey k has a finishedAt stamp, k = output/<jobId>.mp4, and
\* an object exists at k.
C6_FinalizeOrder ==
    /\ \A w \in Workers : \A i \in DOMAIN trace[w] :
         /\ trace[w][i] = "delete_msg" =>
              i > 2 /\ trace[w][i - 1] = "write_done" /\ trace[w][i - 2] = "upload"
         /\ trace[w][i] = "write_done" => i > 1 /\ trace[w][i - 1] = "upload"
    /\ \A j \in JobIds :
         (Status(j) = "DONE" /\ HasField(jobs[j], "outputKey")) =>
            /\ jobs[j]["outputKey"] = OutputKey(j)
            /\ jobs[j]["outputKey"] \in objects
            /\ HasField(jobs[j], "finishedAt")

\* A finished success path: uploaded, DONE stored, message deleted.
C6_Witness ==
    \E w \in Workers :
        /\ pc[w] = "returned"
        /\ Has(trace[w], "delete_msg")
        /\ raised[w] = "none"
        /\ Status(Job(w)) = "DONE"
        /\ queue[Job(w)] = "deleted"

\* C7: an attempt in which download, encode or upload raised ends with the
\* job stored as FAILED with a non-empty error and a finishedAt stamp.
C7_FailureMarksFailed ==
    [][\A w \in Workers :
         (Ends(w) /\ raised'[w] \in {"download", "encode", "upload"}) =>
            /\ StatusOf(jobs'[Job(w)]) = "FAILED"
            /\ HasField(jobs'[Job(w)], "error") /\ jobs'[Job(w)]["error"] # ""
            /\ HasField(jobs'[Job(w)], "finishedAt")]_vars

\* C8: no failure raised while a message is processed leaves the per-message
\* boundary: the worker goes back to receive and the job is stored as FAILED.
C8_NoFailureEscapes ==
    \A w \in Workers :
        (Ended(w) /\ raised[w] \notin {"none", "receive"}) =>
            /\ pc[w] = "returned"
            /\ Status(Job(w)) = "FAILED"

C10_AtMostOneTerminalAttempt ==
    \A j \in JobIds : Cardinality(terminalBy[j]) <= 1

\* C10 (amended): an attempt writes a terminal status only if its own guard
\* read found the job neither RUNNING nor DONE (PENDING, FAILED or absent).
C10_TerminalWriterPassedGuard ==
    \A w \in Workers :
        (cur[w] # NoMsg /\ cur[w].handle \in terminalBy[Job(w)]) =>
            seen[w] \in {"PENDING", "FAILED", "NOT_SEEN"}

\* Two attempts of one job have each written a terminal status, and one of
\* them is still held by its worker.
C10_Witness ==
    \E w \in Workers :
        /\ cur[w] # NoMsg
        /\ cur[w].handle \in terminalBy[Job(w)]
        /\ Cardinality(terminalBy[Job(w)]) = 2

\* The messages worker w has received and not finished with.
Held(w) == {m \in Msgs : cur[w].msg = m} \cup {r.msg : r \in cur[w].rest}

\* C11: a message whose body does not parse is deleted and nothing else
\* happens to it: from its receipt to the loop's next iteration no step of
\* its worker changes the job store or the object store, the only call issued
\* is the delete, and when the delete has returned the message is gone from
\* the queue and the worker goes on to its next message or receive.
C11_MalformedDropped ==
    [][\A w \in Workers :
         /\ (pc[w] # "drop_delete" /\ pc'[w] = "drop_delete") =>
              /\ jobs' = jobs /\ objects' = objects
              /\ ~Parses(cur'[w].msg)
              /\ trace'[w] = <<>>
         /\ (pc[w] = "drop_delete" /\ pc'[w] # "drop_delete") =>
              /\ jobs' = jobs /\ objects' = objects
              /\ trace'[w] = <<"drop_delete">>
              /\ pc'[w] \in {"returned", "crashed"}
              /\ pc'[w] = "returned" =>
                   (queue'[cur[w].msg] = "deleted" /\ raised'[w] = "none")
              /\ pc'[w] = "crashed" => raised'[w] = "drop_delete"
         /\ (pc[w] = "returned" /\ ~Parses(cur[w].msg) /\ pc'[w] # "returned") =>
              /\ jobs' = jobs /\ objects' = objects
              /\ pc'[w] \in {"receive", "guard_read", "drop_delete"}]_vars

\* A malformed message dropped while a job record is in the store.
C11_Witness ==
    \E w \in Workers :
        /\ cur[w].msg = BadMsg
        /\ pc[w] = "returned"
        /\ trace[w] = <<"drop_delete">>
        /\ queue[BadMsg] = "deleted"
        /\ \E j \in JobIds : jobs[j] # NoItem

\* C18: a worker never holds more than one message: what it has received and
\* not finished with is at most one message, and it is at receive (about to
\* issue its next receive_message) only when it holds none.
C18_OneMessageInFlight ==
    \A w \in Workers :
        /\ Cardinality(Held(w)) <= 1
        /\ pc[w] = "receive" => Held(w) = {}
        /\ pc[w] \notin {"receive", "crashed"} => Cardinality(Held(w)) = 1

\* A worker in the middle of one message while another message is waiting in
\* the queue, visible and deliverable.
C18_Witness ==
    \E w \in Workers :
        /\ pc[w] \in {"encode", "upload"}
        /\ Cardinality(Held(w)) = 1
        /\ \E m \in Msgs \ Held(w) : m \in Receivable

\* The extender threads of worker w that are alive.
Alive(w) == (IF ext[w].thread = "off" THEN 0 ELSE 1) + Cardinality(ext[w].zombies)

\* Worker w is outside process_message's extender region: before
\* extender.start() or after process_message has returned.
OutsideExtender(w) ==
    pc[w] \in {"receive", "guard_read", "guard_delete", "drop_delete",
               "write_running", "download", "start_ext", "returned", "crashed"}

\* C13 (as stated): the extender has terminated before process_message
\* returns, so no extender thread of a worker is alive while the worker is
\* outside an attempt's extender region, and a worker never has two.
C13_ExtenderNeverOutlives ==
    \A w \in Workers :
        /\ OutsideExtender(w) => Alive(w) = 0
        /\ Alive(w) <= 1

\* C13 (amended): on every exit path of an attempt that started the extender
\* the stop event has been set and the thread joined before process_message
\* returns; outside the extender region the worker's extender slot is free and
\* the only threads left alive are those that were inside an extension call
\* when the bounded join gave up, each of them stopped.
C13_ExtenderStoppedAndJoined ==
    \A w \in Workers :
        /\ OutsideExtender(w) => (ext[w].thread = "off" /\ ~ext[w].stop)
        /\ (pc[w] \in {"returned", "crashed"} /\ Has(trace[w], "start_ext")) =>
              Has(trace[w], "stop_ext")

\* An attempt has returned while its extender thread, stopped, is still
\* inside an extension call.
C13_Witness ==
    \E w \in Workers :
        /\ pc[w] = "returned"
        /\ Has(trace[w], "start_ext") /\ Has(trace[w], "stop_ext")
        /\ cur[w].handle \in ext[w].zombies

\* C15 (as stated): the extender is started right after the RUNNING write, so
\* the download, the encode and the upload all run under a running extender.
C15_ExtenderCoversAttempt ==
    \A w \in Workers :
        pc[w] \in {"download", "encode", "upload"} =>
            /\ Has(trace[w], "start_ext")
            /\ ext[w].thread \in {"waiting", "calling"}

\* C15 (amended): the extender is started after the RUNNING write and the
\* download and right before the encode: the download runs with no extender,
\* the encode, the upload, the DONE write and the delete run under one that
\* has not been stopped.
C15_ExtenderCoversEncode ==
    \A w \in Workers :
        /\ pc[w] = "download" =>
             (~Has(trace[w], "start_ext") /\ ext[w].thread = "off")
        /\ pc[w] \in {"encode", "upload", "write_done", "delete_msg"} =>
             /\ Len(trace[w]) >= 4
             /\ SubSeq(trace[w], 1, 4) =
                  <<"get_job", "write_running", "download", "start_ext">>
             /\ ext[w].thread \in {"waiting", "calling"}
             /\ ~ext[w].stop

\* An upload in progress under the running extender.
C15_Witness ==
    \E w \in Workers :
        /\ pc[w] = "upload"
        /\ trace[w] = <<"get_job", "write_running", "download", "start_ext", "encode">>
        /\ ext[w].thread = "waiting"

\* The calls of an attempt that come after its RUNNING write.
AfterRunning == {"download", "start_ext", "encode", "upload", "write_done",
                 "delete_msg", "write_failed", "stop_ext"}

\* C16: a delivery whose guard read found the job PENDING, FAILED or absent
\* writes RUNNING with startedAt as its first call after the read: the write
\* stores status RUNNING and a startedAt stamp, and the download, the encode
\* and the DONE or FAILED write of the attempt are issued only after it.
C16_RunningFirst ==
    /\ [](\A w \in Workers :
            seen[w] \in {"PENDING", "FAILED", "NOT_SEEN"} =>
               /\ pc[w] \notin {"guard_delete"}
               /\ Len(trace[w]) >= 2 => trace[w][2] = "write_running"
               /\ \A i \in DOMAIN trace[w] :
                    trace[w][i] \in AfterRunning => i > 2
               /\ pc[w] \in AfterRunning => Len(trace[w]) >= 2)
    /\ [][\A w \in Workers :
            (pc[w] = "write_running" /\ pc'[w] = "download") =>
               /\ StatusOf(jobs'[Job(w)]) = "RUNNING"
               /\ HasField(jobs'[Job(w)], "startedAt")]_vars

\* An attempt on a job that had no record: it now runs under a record that the
\* RUNNING write created.
C16_Witness ==
    \E w \in Workers :
        /\ seen[w] = "NOT_SEEN"
        /\ pc[w] = "encode"
        /\ Status(Job(w)) = "RUNNING"
        /\ HasField(jobs[Job(w)], "startedAt")

\* The step is worker w's extender thread beginning an extension call.
BeginsExtension(w) == ext[w].thread = "waiting" /\ ext'[w].thread = "calling"

\* C20 (as stated): the extender begins no extension call for a message once
\* its worker has deleted that message.
C20_NoExtensionAfterDelete ==
    [][\A w \in Workers :
         BeginsExtension(w) => deletedBy[Job(w)] # cur[w].handle]_vars

\* C20 (amended): the extender begins no extension call once its stop event is
\* set; a call begun after the worker's own delete of the message begins
\* between that delete and the extender.stop() of the finally clause.
C20_NoExtensionAfterStop ==
    [][\A w \in Workers :
         BeginsExtension(w) =>
            /\ ~ext[w].stop
            /\ deletedBy[Job(w)] = cur[w].handle => pc[w] = "stop_ext"]_vars

\* The message deleted by its worker, the stop event set, the thread still
\* alive in its wait.
C20_Witness ==
    \E w \in Workers :
        /\ pc[w] = "join"
        /\ ext[w].stop
        /\ ext[w].thread = "waiting"
        /\ deletedBy[Job(w)] = cur[w].handle

\* The main-path state of worker w, the stores and the queue.
MainPath(w) == <<pc[w], cur[w], seen[w], trace[w], raised[w], propagating[w], err[w],
                 jobs, objects, queue, deliveries, terminalBy, deletedBy>>

\* C12: when the encode/upload phase of an attempt outlasts the extension
\* period, the extender has an extension call under way (in the call, or in
\* the except clause right after it) for the attempt's receipt handle, asking
\* for MAX_VIS_TIMEOUT, and it is not stopped; once the stop event is set the
\* thread begins no further call: it can only finish the call it is in, go
\* back to its wait and end.
C12_LongPhaseExtended ==
    [][\A w \in Workers :
         /\ (~outlasted[w] /\ outlasted'[w]) =>
              /\ ext'[w].thread \in {"calling", "warning"}
              /\ ~ext'[w].stop
              /\ ExtCall(w)' = [handle |-> cur[w].handle, timeout |-> 1800]
         /\ ext[w].stop =>
              /\ ~(ext[w].thread # "calling" /\ ext'[w].thread = "calling")
              /\ ext[w].thread = "calling" => ext'[w].thread \in {"calling", "waiting", "warning", "off"}
              /\ ext[w].thread = "warning" => ext'[w].thread \in {"warning", "waiting"}
              /\ ext[w].thread = "waiting" => ext'[w].thread \in {"waiting", "off"}
              /\ ext[w].thread = "off" => ext'[w].thread = "off"]_vars

\* The encode has outlasted the period and the extension call is under way.
C12_Witness ==
    \E w \in Workers :
        /\ pc[w] = "encode"
        /\ outlasted[w]
        /\ ext[w].thread = "calling"
        /\ ext[w].handle = cur[w].handle

\* C17: a failing extension call changes nothing but the extender thread's own
\* position: the step into the except clause and the step out of it leave the
\* main path, the stores and the queue as they are, the thread goes back to
\* its wait, and from extender.start() to extender.stop() the thread is
\* never ended.
C17_ExtensionFailureSwallowed ==
    /\ [](\A w \in Workers :
            pc[w] \in {"encode", "upload", "write_done", "delete_msg",
                       "write_failed", "stop_ext"} =>
               (ext[w].thread # "off" /\ ~ext[w].stop))
    /\ [][\A w \in Workers :
            ((ext[w].thread = "warning") # (ext'[w].thread = "warning")) =>
               /\ MainPath(w)' = MainPath(w)
               /\ ext'[w].stop = ext[w].stop
               /\ ext[w].thread = "warning" => ext'[w].thread = "waiting"]_vars

\* An extension call has failed and the main path has gone on to its DONE write.
C17_Witness ==
    \E w \in Workers :
        /\ ext[w].thread = "warning"
        /\ pc[w] = "write_done"
        /\ raised[w] = "none"

\* Worker w is processing a message of job j.
Processing(w, j) == cur[w].msg = j /\ pc[w] \notin {"receive", "returned", "crashed"}

\* Job j is stored as RUNNING while no worker is processing it.
Abandoned(j) == Status(j) = "RUNNING" /\ \A w \in Workers : ~Processing(w, j)

\* C19 (as stated): no job is ever stored as RUNNING while no worker is
\* processing it and its message is gone from the queue; checked where a
\* worker was killed and none died of an exception.
C19_NoOrphanedRunning ==
    \A j \in JobIds :
        (\A w \in Workers : raised[w] = "none") =>
            ~(Abandoned(j) /\ queue[j] = "deleted")

\* C19 (amended): a job is stored as RUNNING with no worker processing it only
\* after a worker that had issued the RUNNING write for it died; and once
\* such a job's message is deleted, the job stays RUNNING with nobody
\* processing it for ever.
C19_OrphanOnlyAfterDeath ==
    /\ [](\A j \in JobIds :
            Abandoned(j) =>
               \E w \in Workers :
                   /\ pc[w] = "crashed"
                   /\ cur[w].msg = j
                   /\ Has(trace[w], "write_running"))
    /\ [][\A j \in JobIds :
            (Abandoned(j) /\ queue[j] = "deleted") =>
               (Abandoned(j)' /\ queue'[j] = "deleted")]_vars

\* A job left RUNNING by a killed worker, its redelivered message deleted by
\* the guard of the other worker, which is back at its receive.
C19_Witness ==
    \E j \in JobIds :
        /\ Abandoned(j)
        /\ queue[j] = "deleted"
        /\ \E w \in Workers : pc[w] = "crashed" /\ cur[w].msg = j /\ raised[w] = "none"
        /\ \E w \in Workers : pc[w] = "receive"

\* The parameters the claim gives for preset field p of a message body
\* ("absent": the body has no preset field).
Expected(p) ==
    CASE p = "mp4-1080p" -> <<1920, 1080, 23>>
      [] p = "mp4-720p"  -> <<1280, 720, 23>>
      [] p = "mp4-480p"  -> <<854, 480, 24>>
      [] p = "mp4-360p"  -> <<640, 360, 25>>
      [] OTHER           -> <<1280, 720, 23>>

\* C14: every encoder call gets past the resolution of its preset, and the
\* resolved width, height and crf are the table's entry for a known preset
\* name and those of mp4-720p (1280, 720, 23) for any other name and for a
\* message without a preset field; the command is built from them.
C14_PresetResolution ==
    /\ ff.stage \in {"message", "called", "resolved", "built", "returned", "raised"}
    /\ ff.stage \in {"resolved", "built", "returned", "raised"} =>
         LET p == IF "preset" \in DOMAIN ff.body THEN ff.body["preset"] ELSE "absent"
         IN  <<ff.spec.width, ff.spec.height, ff.spec.crf>> = Expected(p)
    /\ ff.stage \in {"built", "returned", "raised"} =>
         /\ ff.cmd.scale = <<ff.spec.width, ff.spec.height>>
         /\ ff.cmd.crf = ff.spec.crf

\* A message without a preset field, encoded at 1280x720, crf 23.
C14_Witness ==
    /\ ff.stage = "returned"
    /\ "preset" \notin DOMAIN ff.body
    /\ ff.cmd.scale = <<1280, 720>>
    /\ ff.cmd.crf = 23

====
